---- MODULE Spec2Model ----
(***************************************************************************)
(* Model of the Windows packet I/O boundary of quic-go:                    *)
(*   - the control-message codec  (sys_conn_helper_windows.go)             *)
(*   - the batched receive pipeline oobConn.ReadPacket and the send path   *)
(*     oobConn.WritePacket          (sys_conn_oob, Windows build)          *)
(*   - construction (newConn) and the capability snapshot.                 *)
(* Byte buffers are sequences of 0..255, 1-indexed: Go's b[i] is b[i+1].   *)
(***************************************************************************)
EXTENDS Integers, Sequences, FiniteSets, TLC

VARIABLES
    cap,          \* oobConn.cap: [DF, GSO, ECN]
    ctorErr,      \* error returned by newConn ("nil" when the oobConn exists)
    readPos,      \* oobConn.readPos
    messages,     \* backing array of oobConn.messages: slot -> [id, OOB, NN, buf]
    messagesLen,  \* len(oobConn.messages)
    buffers,      \* oobConn.buffers: slot -> buffer id (0 is nil)
    pool,         \* buffers idle in the packet-buffer pool
    held,         \* bag of buffers in callers' hands: buffer id -> number of holders
    handed,       \* history: slot -> TRUE when buffers[slot] went out to a caller
    nextId,       \* sequence number of the next datagram the OS will deliver
    onceV4,       \* invalidCmsgOnceV4 has run
    onceV6,       \* invalidCmsgOnceV6 has run
    logLines,     \* diagnostics written by log.Printf: [v4 |-> n, v6 |-> n]
    last,         \* what the last call did and returned (history)
    batch,        \* history: the last successful ReadBatch [n, first, calls]
    env,          \* what the socket and the OS answer during construction
    cin,          \* codec specifications: the input
    cout,         \* codec specifications: the output
    probes,       \* history: how often the capability probes of newConn have run
    insts,        \* further oobConns of the process (they share the Once gates)
    seen,         \* history: packet-info records of unexpected length received
    readers,      \* ReadPacket calls in flight, statement by statement
    server,       \* the listener of the integration tests: accept queue, closed
    closedConn    \* a connection after CloseWithError: packets seen, packets sent

vars == <<cap, ctorErr, readPos, messages, messagesLen, buffers, pool, held,
          handed, nextId, onceV4, onceV6, logLines, last, batch, env, cin, cout,
          probes, insts, seen, readers, server, closedConn>>

\* state of the specifications that follow the pipeline's
extVars == <<insts, seen, readers, server, closedConn>>

pipeVars == <<readPos, messages, messagesLen, buffers, pool, held, handed,
              nextId, onceV4, onceV6, logLines>>

(***************************************************************************)
(* Bounds of the model.                                                    *)
(***************************************************************************)
\* Capacity of a batch. The build sets batchSize = 1; the receive code is
\* written for any capacity, so the capacity is a parameter of the model.
BatchCapacity == 1
\* Buffers callers may hold unreleased at once.
MaxHeld == 2
\* Datagrams the OS delivers in one run.
MaxMsgs == 2

(***************************************************************************)
(* Program constants.                                                      *)
(***************************************************************************)
batchSize == BatchCapacity
ecnMask == 3
IPV6_RECVTCLASS == 40
\* golang.org/x/sys/windows
IPPROTO_IP == 0
IPPROTO_IPV6 == 41
IPPROTO_UDP == 17
IP_TOS == 3
IP_PKTINFO == 19
IPV6_PKTINFO == 19
UDP_SEND_MSG_SIZE == 2
\* reflect.TypeOf(Cmsghdr{}).Size(): three 4-byte fields
cmsgSize == 12
\* reflect.TypeOf(Cmsghdr{}).Align()
cmsgAlign == 4
\* reflect.TypeOf(uint32(0)).Align()
alignPointer == 4

Min(a, b) == IF a < b THEN a ELSE b

(***************************************************************************)
(* Little-endian fixed-width fields. Every input of the model keeps the    *)
(* top byte of a 32-bit field below 128, so that uint32 and int32 agree    *)
(* and the value fits TLC's integers.                                      *)
(***************************************************************************)
U16(m, i) == m[i] + 256 * m[i + 1]
U32(m, i) == m[i] + 256 * m[i + 1] + 65536 * m[i + 2] + 16777216 * m[i + 3]
PutU16(v) == <<v % 256, (v \div 256) % 256>>
PutU32(v) == <<v % 256, (v \div 256) % 256, (v \div 65536) % 256, (v \div 16777216) % 256>>

RECURSIVE Zeros(_)
Zeros(n) == IF n <= 0 THEN <<>> ELSE <<0>> \o Zeros(n - 1)

(***************************************************************************)
(* cmsg arithmetic.                                                        *)
(***************************************************************************)
\* (len + align - 1) & ^(align - 1), align a power of two
cmsgDataAlign(len) == ((len + alignPointer - 1) \div alignPointer) * alignPointer
cmsgHdrAlign(len) == ((len + cmsgAlign - 1) \div cmsgAlign) * cmsgAlign
cmsgLen(length) == cmsgDataAlign(cmsgSize) + length
cmsgSpace(length) == cmsgDataAlign(cmsgSize + cmsgHdrAlign(length))

(***************************************************************************)
(* socketControlMessageHeaderAndData(b). b is a slice of a larger piece    *)
(* of memory; tail is what lies behind the slice's end. The cast to        *)
(* *Cmsghdr reads h.Len from the first four bytes of memory whatever       *)
(* len(b) is. maxRead is the number of leading bytes of memory read.       *)
(***************************************************************************)
socketControlMessageHeaderAndData(b, tail) ==
    IF Len(b) = 0
    THEN [err |-> "panic", maxRead |-> 0]
    ELSE LET mem == b \o tail
             hLen == U32(mem, 1)
         IN IF hLen < cmsgSize \/ hLen > Len(b)
            THEN [err |-> "EINVAL", maxRead |-> 4]
            ELSE [err |-> "nil", maxRead |-> 4, hLen |-> hLen,
                  data |-> SubSeq(b, cmsgDataAlign(cmsgSize) + 1, hLen)]

\* Mutant: the remainder starts right behind the record's declared length,
\* not at the next aligned offset.
ParseOneUnalignedRemainder(b, tail) ==
    LET hd == socketControlMessageHeaderAndData(b, tail)
    IN IF hd.err # "nil"
       THEN [err |-> hd.err, maxRead |-> hd.maxRead,
             hdr |-> [Len |-> 0, Level |-> 0, Type |-> 0],
             data |-> <<>>, remainder |-> <<>>]
       ELSE [err |-> "nil", maxRead |-> cmsgSize,
             hdr |-> [Len |-> hd.hLen, Level |-> U32(b, 5), Type |-> U32(b, 9)],
             data |-> hd.data,
             remainder |-> IF hd.hLen < Len(b) THEN SubSeq(b, hd.hLen + 1, Len(b))
                           ELSE <<>>]

(***************************************************************************)
(* ParseOneSocketControlMessage(b): header, data, remainder, err.          *)
(***************************************************************************)
ParseOneSocketControlMessage(b, tail) ==
    LET hd == socketControlMessageHeaderAndData(b, tail)
    IN IF hd.err # "nil"
       THEN [err |-> hd.err, maxRead |-> hd.maxRead,
             hdr |-> [Len |-> 0, Level |-> 0, Type |-> 0],
             data |-> <<>>, remainder |-> <<>>]
       ELSE LET i == cmsgDataAlign(hd.hLen)
            IN [err |-> "nil", maxRead |-> cmsgSize,
                hdr |-> [Len |-> hd.hLen, Level |-> U32(b, 5), Type |-> U32(b, 9)],
                data |-> hd.data,
                remainder |-> IF i < Len(b) THEN SubSeq(b, i + 1, Len(b)) ELSE <<>>]

(***************************************************************************)
(* protocol.ECN and its header bits (internal/protocol).                   *)
(***************************************************************************)
ECNValues == {"ECNUnsupported", "ECNNon", "ECT1", "ECT0", "ECNCE"}

ParseECNHeaderBits(bits) ==
    CASE bits = 0 -> "ECNNon"
      [] bits = 1 -> "ECT1"
      [] bits = 2 -> "ECT0"
      [] bits = 3 -> "ECNCE"
      [] OTHER -> "panic"

ToHeaderBits(ecn) ==
    CASE ecn = "ECNNon" -> 0
      [] ecn = "ECT1" -> 1
      [] ecn = "ECT0" -> 2
      [] ecn = "ECNCE" -> 3
      [] OTHER -> -1      \* panics

(***************************************************************************)
(* Record builders of the send path.                                       *)
(***************************************************************************)
\* Mutant: the size is written high byte first.
appendUDPSegmentSizeMsgBigEndian(b, size) ==
    b \o PutU32(cmsgLen(2)) \o PutU32(IPPROTO_UDP) \o PutU32(UDP_SEND_MSG_SIZE)
      \o <<(size \div 256) % 256, size % 256>> \o Zeros(cmsgSpace(2) - cmsgLen(0) - 2)

appendUDPSegmentSizeMsg(b, size) ==
    b \o PutU32(cmsgLen(2)) \o PutU32(IPPROTO_UDP) \o PutU32(UDP_SEND_MSG_SIZE)
      \o PutU16(size) \o Zeros(cmsgSpace(2) - cmsgLen(0) - 2)

appendIPv4ECNMsg(b, val) ==
    b \o PutU32(cmsgLen(4)) \o PutU32(IPPROTO_IP) \o PutU32(IP_TOS)
      \o <<ToHeaderBits(val)>> \o Zeros(cmsgLen(4) - cmsgSpace(0) - 1)

\* Mutant: the IPv6 record is written with the IPv4 level and type.
appendIPv6ECNMsgAsIPv4(b, val) ==
    b \o PutU32(cmsgLen(4)) \o PutU32(IPPROTO_IP) \o PutU32(IP_TOS)
      \o <<ToHeaderBits(val)>> \o Zeros(cmsgLen(4) - cmsgSpace(0) - 1)

appendIPv6ECNMsg(b, val) ==
    b \o PutU32(cmsgLen(4)) \o PutU32(IPPROTO_IPV6) \o PutU32(IPV6_RECVTCLASS)
      \o <<ToHeaderBits(val)>> \o Zeros(cmsgLen(4) - cmsgSpace(0) - 1)

(***************************************************************************)
(* Construction. env is what the socket and the OS answer:                 *)
(*   syscallConnErr, controlErr   c.SyscallConn() / rawConn.Control fail   *)
(*   unspecified                  LocalAddr is a UDP address, unspecified  *)
(*   errECNIPv4 .. errPIIPv6      the four setsockopt calls fail           *)
(*   supportsDF                   the caller's argument                    *)
(*   sock6Err, sock4Err, optErr   the GSO probe's socket()/setsockopt fail *)
(***************************************************************************)
getMaxGSOSegments(e) ==
    IF e.sock6Err /\ e.sock4Err THEN 1
    ELSE IF e.optErr THEN 1
    ELSE 512

isGSOEnabled(e) == getMaxGSOSegments(e) = 512

isECNEnabled == TRUE

\* Mutant: packet info is activated, and required, whatever the local address.
newConnAlwaysPacketInfo(e) ==
    LET noCap == [DF |-> FALSE, GSO |-> FALSE, ECN |-> FALSE]
    IN IF e.syscallConnErr THEN [err |-> "SyscallConn", cap |-> noCap]
       ELSE IF e.controlErr THEN [err |-> "Control", cap |-> noCap]
       ELSE IF e.errECNIPv4 /\ e.errECNIPv6 THEN [err |-> "ECN", cap |-> noCap]
       ELSE IF e.errPIIPv4 /\ e.errPIIPv6 THEN [err |-> "PacketInfo", cap |-> noCap]
       ELSE [err |-> "nil",
             cap |-> [DF |-> e.supportsDF, GSO |-> getMaxGSOSegments(e) = 512, ECN |-> TRUE]]

newConn(e) ==
    LET needsPacketInfo == e.unspecified
        errPIIPv4 == needsPacketInfo /\ e.errPIIPv4
        errPIIPv6 == needsPacketInfo /\ e.errPIIPv6
        noCap == [DF |-> FALSE, GSO |-> FALSE, ECN |-> FALSE]
    IN IF e.syscallConnErr THEN [err |-> "SyscallConn", cap |-> noCap]
       ELSE IF e.controlErr THEN [err |-> "Control", cap |-> noCap]
       ELSE IF e.errECNIPv4 /\ e.errECNIPv6 THEN [err |-> "ECN", cap |-> noCap]
       ELSE IF needsPacketInfo /\ errPIIPv4 /\ errPIIPv6
            THEN [err |-> "PacketInfo", cap |-> noCap]
       ELSE [err |-> "nil",
             cap |-> [DF |-> e.supportsDF, GSO |-> isGSOEnabled(e), ECN |-> isECNEnabled]]

capabilities(c) == c

\* The probes one run of newConn executes: the setsockopt calls inside
\* rawConn.Control and the GSO probe of isGSOEnabled.
ProbesRun(e) ==
    IF e.syscallConnErr \/ e.controlErr THEN [sockopt |-> 0, gso |-> 0]
    ELSE [sockopt |-> IF e.unspecified THEN 4 ELSE 2,
          gso |-> IF newConn(e).err = "nil" THEN 1 ELSE 0]

Envs ==
    [syscallConnErr : BOOLEAN, controlErr : BOOLEAN, unspecified : BOOLEAN,
     errECNIPv4 : BOOLEAN, errECNIPv6 : BOOLEAN, errPIIPv4 : BOOLEAN, errPIIPv6 : BOOLEAN,
     supportsDF : BOOLEAN, sock6Err : BOOLEAN, sock4Err : BOOLEAN, optErr : BOOLEAN]

\* The sockets the pipeline specifications run on: construction succeeds,
\* the GSO probe succeeds or fails.
WorkingEnvs ==
    {e \in Envs : /\ ~e.syscallConnErr /\ ~e.controlErr /\ e.unspecified
                  /\ ~e.errECNIPv4 /\ ~e.errECNIPv6 /\ ~e.errPIIPv4 /\ ~e.errPIIPv6
                  /\ e.supportsDF /\ ~e.sock6Err /\ ~e.sock4Err}

(***************************************************************************)
(* Ancillary data as the OS lays it out on receive: header {Len, Level,    *)
(* Type}, payload, padding up to the alignment.                            *)
(***************************************************************************)
Rec(level, type, body) ==
    LET l == cmsgSize + Len(body)
    IN PutU32(l) \o PutU32(level) \o PutU32(type) \o body \o Zeros(cmsgDataAlign(l) - l)

\* a header whose declared length is declLen, whatever follows
BadRec(declLen) == PutU32(declLen) \o PutU32(IPPROTO_IP) \o PutU32(IP_PKTINFO)

Addr4 == <<192, 0, 2, 1>>
Addr16 == <<32, 1, 13, 184, 0, 0, 0, 0, 0, 0, 0, 0, 0, 0, 0, 1>>

NoInfo == [addr |-> <<>>, ifIndex |-> 0]

\* The chains the OS delivers in the pipeline specifications. malformed:
\* some record's declared length is out of bounds. info: the address and
\* interface index of the chain's packet-info record of the expected
\* length, if it has one.
Chains == <<
    [bytes |-> <<>>, malformed |-> FALSE, info |-> NoInfo],
    [bytes |-> Rec(IPPROTO_IP, IP_TOS, <<186, 0, 0, 0>>) \o Rec(99, 99, <<1, 2, 3, 4>>)
               \o Rec(IPPROTO_IP, IP_PKTINFO, Addr4 \o PutU32(7)),
     malformed |-> FALSE, info |-> [addr |-> Addr4, ifIndex |-> 7]],
    [bytes |-> Rec(IPPROTO_IPV6, IPV6_PKTINFO, Addr16 \o PutU32(9))
               \o Rec(IPPROTO_IPV6, IPV6_RECVTCLASS, <<3, 0, 0, 0>>),
     malformed |-> FALSE, info |-> [addr |-> Addr16, ifIndex |-> 9]],
    [bytes |-> BadRec(4), malformed |-> TRUE, info |-> NoInfo],
    [bytes |-> Rec(IPPROTO_IP, IP_TOS, <<1, 0, 0, 0>>) \o BadRec(200),
     malformed |-> TRUE, info |-> NoInfo],
    [bytes |-> Rec(IPPROTO_IP, IP_TOS, <<>>) \o BadRec(200),
     malformed |-> TRUE, info |-> NoInfo],
    [bytes |-> SubSeq(Rec(IPPROTO_IP, IP_PKTINFO, <<192, 0, 2, 1, 7, 0, 0>>), 1, 19),
     malformed |-> FALSE, info |-> NoInfo],
    [bytes |-> Rec(IPPROTO_IPV6, IPV6_PKTINFO, Addr4 \o PutU32(9)),
     malformed |-> FALSE, info |-> NoInfo],
    [bytes |-> <<16, 0>>, malformed |-> TRUE, info |-> NoInfo]
    >>

ChainIds == 1..Len(Chains)

\* What a read past the end of a slot's ancillary data may find: the OOB
\* array is 128 bytes, and bytes behind NN are whatever was there before.
Garbage == {<<0, 0, 0, 0>>, <<0, 16, 0, 0>>, <<127, 127, 127, 127>>}

(***************************************************************************)
(* parseIPv4PktInfo(body)                                                  *)
(***************************************************************************)
parseIPv4PktInfo(body) ==
    IF Len(body) # 8
    THEN [ip |-> <<>>, ifIndex |-> 0, ok |-> FALSE]
    ELSE [ip |-> SubSeq(body, 1, 4), ifIndex |-> U32(body, 1), ok |-> TRUE]

\* netip.Addr.Unmap: an IPv4-mapped IPv6 address becomes the IPv4 address
Unmap(a) ==
    IF Len(a) = 16 /\ (\A i \in 1..10 : a[i] = 0) /\ a[11] = 255 /\ a[12] = 255
    THEN SubSeq(a, 13, 16)
    ELSE a

(***************************************************************************)
(* The loop of ReadPacket over the ancillary data of one message. st is    *)
(* the packet under construction and the process-wide Once gates:          *)
(* [err, ecn, addr, ifIndex, onceV4, onceV6, logV4, logV6, pastEnd].       *)
(***************************************************************************)
NewPacketState(o4, o6) ==
    [err |-> "nil", ecn |-> "ECNUnsupported", addr |-> <<>>, ifIndex |-> 0,
     onceV4 |-> o4, onceV6 |-> o6, logV4 |-> 0, logV6 |-> 0, pastEnd |-> FALSE]

\* Mutant: a record of an unrecognised (level, type) is an error.
ControlMessageRejectsUnknown(hdr, body, st) ==
    IF hdr.Level = IPPROTO_IP /\ hdr.Type = IP_TOS /\ Len(body) > 0
    THEN [st EXCEPT !.ecn = ParseECNHeaderBits(body[1] % (ecnMask + 1))]
    ELSE IF hdr.Level = IPPROTO_IP /\ hdr.Type = IP_PKTINFO /\ Len(body) = 8
    THEN [st EXCEPT !.addr = SubSeq(body, 1, 4), !.ifIndex = U32(body, 1)]
    ELSE IF hdr.Level = IPPROTO_IPV6 /\ hdr.Type = IPV6_RECVTCLASS /\ Len(body) > 0
    THEN [st EXCEPT !.ecn = ParseECNHeaderBits(body[1] % (ecnMask + 1))]
    ELSE IF hdr.Level = IPPROTO_IPV6 /\ hdr.Type = IPV6_PKTINFO /\ Len(body) = 20
    THEN [st EXCEPT !.addr = Unmap(SubSeq(body, 1, 16)), !.ifIndex = U32(body, 17)]
    ELSE [st EXCEPT !.err = "EINVAL"]

\* Mutant: one gate for both address families.
ControlMessageSharedGate(hdr, body, st) ==
    IF hdr.Level = IPPROTO_IP /\ hdr.Type = IP_TOS /\ Len(body) > 0
    THEN [st EXCEPT !.ecn = ParseECNHeaderBits(body[1] % (ecnMask + 1))]
    ELSE IF hdr.Level = IPPROTO_IP /\ hdr.Type = IP_PKTINFO
    THEN IF Len(body) = 8
         THEN [st EXCEPT !.addr = SubSeq(body, 1, 4), !.ifIndex = U32(body, 1)]
         ELSE IF st.onceV4 THEN st
              ELSE [st EXCEPT !.onceV4 = TRUE, !.logV4 = @ + 1]
    ELSE IF hdr.Level = IPPROTO_IPV6 /\ hdr.Type = IPV6_RECVTCLASS /\ Len(body) > 0
    THEN [st EXCEPT !.ecn = ParseECNHeaderBits(body[1] % (ecnMask + 1))]
    ELSE IF hdr.Level = IPPROTO_IPV6 /\ hdr.Type = IPV6_PKTINFO
    THEN IF Len(body) = 20
         THEN [st EXCEPT !.addr = Unmap(SubSeq(body, 1, 16)), !.ifIndex = U32(body, 17)]
         ELSE IF st.onceV4 THEN st
              ELSE [st EXCEPT !.onceV4 = TRUE, !.logV6 = @ + 1]
    ELSE st

\* the body of one iteration after a successful parse
ControlMessage(hdr, body, st) ==
    IF hdr.Level = IPPROTO_IP
    THEN CASE hdr.Type = IP_TOS ->
                IF Len(body) = 0
                THEN [st EXCEPT !.err = "panic"]
                ELSE [st EXCEPT !.ecn = ParseECNHeaderBits(body[1] % (ecnMask + 1))]
           [] hdr.Type = IP_PKTINFO ->
                LET r == parseIPv4PktInfo(body)
                IN IF r.ok
                   THEN [st EXCEPT !.addr = r.ip, !.ifIndex = r.ifIndex]
                   ELSE IF st.onceV4 THEN st
                        ELSE [st EXCEPT !.onceV4 = TRUE, !.logV4 = @ + 1]
           [] OTHER -> st
    ELSE IF hdr.Level = IPPROTO_IPV6
    THEN CASE hdr.Type = IPV6_RECVTCLASS ->
                IF Len(body) = 0
                THEN [st EXCEPT !.err = "panic"]
                ELSE [st EXCEPT !.ecn = ParseECNHeaderBits(body[1] % (ecnMask + 1))]
           [] hdr.Type = IPV6_PKTINFO ->
                IF Len(body) = 20
                THEN [st EXCEPT !.addr = Unmap(SubSeq(body, 1, 16)),
                                !.ifIndex = U32(body, 17)]
                ELSE IF st.onceV6 THEN st
                     ELSE [st EXCEPT !.onceV6 = TRUE, !.logV6 = @ + 1]
           [] OTHER -> st
    ELSE st

RECURSIVE ReadControl(_, _, _)
ReadControl(data, tail, st) ==
    IF Len(data) = 0
    THEN st
    ELSE LET r == ParseOneSocketControlMessage(data, tail)
         IN IF r.err # "nil"
            THEN [st EXCEPT !.err = r.err, !.pastEnd = r.maxRead > Len(data)]
            ELSE LET s2 == ControlMessage(r.hdr, r.data, st)
                 IN IF s2.err # "nil" THEN s2 ELSE ReadControl(r.remainder, tail, s2)

(***************************************************************************)
(* The receive pipeline. Slots are numbered 0..batchSize-1 as in the       *)
(* source; slot i of the arrays is index i+1.                              *)
(***************************************************************************)
Slots == 0..(batchSize - 1)
BufIds == 1..(2 * batchSize + MaxHeld)

EmptyMessage == [id |-> 0, chain |-> 0, OOB |-> <<>>, NN |-> 0, buf |-> 0]

\* receivedPacket{}
NoPacket == [id |-> 0, buf |-> 0, ecn |-> "ECNUnsupported", addr |-> <<>>, ifIndex |-> 0]

HeldCount == LET RECURSIVE Sum(_)
                 Sum(S) == IF S = {} THEN 0
                           ELSE LET b == CHOOSE x \in S : TRUE
                                IN held[b] + Sum(S \ {b})
             IN Sum(BufIds)

\* len(c.messages) == int(c.readPos)
AllMessagesRead(len, pos) == len = pos

\* Mutant: the refill loop stops one slot short.
RefillSlotsButLast(pos) == {i \in 0..(batchSize - 1) : i < pos - 1}

\* the slots the refill loop gives a new buffer: i < c.readPos
RefillSlots(pos) == {i \in Slots : i < pos}

\* what ReadBatch may answer: n messages with their ancillary data, or a
\* failure. first is the sequence number of the first datagram delivered.
ReadBatchResults(first) ==
    {[n |-> 0, err |-> "nil", chains |-> <<>>], [n |-> 0, err |-> "EOS", chains |-> <<>>]}
    \cup UNION {{[n |-> n, err |-> "nil", chains |-> cs] : cs \in [1..n -> ChainIds]} :
                 n \in {k \in 1..batchSize : first + k - 1 <= MaxMsgs}}

\* n == 0 || err != nil
BatchFailed(n, err) == n = 0 \/ err # "nil"

\* c.messages after ReadBatch wrote rb.n messages into the first slots
Received(msgs, rb, first) ==
    [i \in 1..batchSize |->
        IF i <= rb.n
        THEN [msgs[i] EXCEPT !.id = first + i - 1, !.chain = rb.chains[i],
                             !.OOB = Chains[rb.chains[i]].bytes,
                             !.NN = Len(Chains[rb.chains[i]].bytes)]
        ELSE msgs[i]]

\* Mutant: the refill leaves the cursor where it was.
KeepCursor(pos) == pos

\* the cursor after a refill: c.readPos = 0
ResetCursor(pos) == 0

\* Mutant: the cursor moves two slots on.
AdvanceTwice(pos) == pos + 2

\* Mutant: the cursor is not moved.
AdvanceNot(pos) == pos

\* the cursor after a slot was taken: c.readPos++
Advance(pos) == pos + 1

\* getPacketBuffer: the pool hands out one of its idle buffers. Buffers
\* are interchangeable; the model takes the lowest-numbered one.
getPacketBuffer(p) == CHOOSE b \in p : \A x \in p : b <= x

\* the refill loop: for i < c.readPos, c.buffers[i] = getPacketBuffer()
RECURSIVE RefillLoop(_, _, _, _)
RefillLoop(i, slots, p, bufs) ==
    IF i >= batchSize THEN bufs
    ELSE IF i \in slots
         THEN LET b == getPacketBuffer(p)
              IN RefillLoop(i + 1, slots, p \ {b}, [bufs EXCEPT ![i + 1] = b])
         ELSE RefillLoop(i + 1, slots, p, bufs)

(***************************************************************************)
(* ReadPacket, as a function of the connection c = [readPos, messages,     *)
(* messagesLen, buffers], the idle buffers of the pool (p), the answer of  *)
(* ReadBatch (rb), the memory behind the slot's ancillary data (tail), the *)
(* sequence number of the next datagram (first) and the Once gates. The    *)
(* result gives the connection after the call, what the call returned and  *)
(* what it did.                                                            *)
(***************************************************************************)
ReadPacketCall(c, p, rb, tail, first, o4, o6) ==
    LET refill == AllMessagesRead(c.messagesLen, c.readPos)
        slots == IF refill THEN RefillSlots(c.readPos) ELSE {}
        bufs1 == RefillLoop(0, slots, p, c.buffers)
        msgs1 == [i \in 1..batchSize |->
                    IF (i - 1) \in slots THEN [c.messages[i] EXCEPT !.buf = bufs1[i]]
                    ELSE c.messages[i]]
        failed == refill /\ BatchFailed(rb.n, rb.err)
        msgs2 == IF refill THEN Received(msgs1, rb, first) ELSE c.messages
        len2 == IF ~refill THEN c.messagesLen
                ELSE IF failed THEN batchSize ELSE rb.n
        pos1 == IF refill THEN ResetCursor(c.readPos) ELSE c.readPos
        info == [entryPos |-> c.readPos, entryLen |-> c.messagesLen, recv |-> refill,
                 recvN |-> IF refill THEN rb.n ELSE 0,
                 recvErr |-> IF refill THEN rb.err ELSE "nil",
                 refilled |-> slots,
                 recvBufs |-> IF refill THEN {msgs1[i].buf : i \in 1..batchSize} ELSE {}]
    IN IF failed
       THEN [conn |-> [readPos |-> pos1, messages |-> msgs2, messagesLen |-> len2,
                       buffers |-> bufs1],
             err |-> rb.err, pkt |-> NoPacket, slot |-> -1, chain |-> 0, msgId |-> 0,
             onceV4 |-> o4, onceV6 |-> o6, logV4 |-> 0, logV6 |-> 0,
             pastEnd |-> FALSE, info |-> info]
       ELSE IF pos1 >= len2
       THEN \* c.messages[c.readPos]: index out of range
            [conn |-> [readPos |-> pos1, messages |-> msgs2, messagesLen |-> len2,
                       buffers |-> bufs1],
             err |-> "panic", pkt |-> NoPacket, slot |-> -1, chain |-> 0, msgId |-> 0,
             onceV4 |-> o4, onceV6 |-> o6, logV4 |-> 0, logV6 |-> 0,
             pastEnd |-> FALSE, info |-> info]
       ELSE LET msg == msgs2[pos1 + 1]
                buffer == bufs1[pos1 + 1]
            IN \* one evaluation of the loop, bound to st
               CHOOSE res \in
                 {[conn |-> [readPos |-> Advance(pos1), messages |-> msgs2,
                             messagesLen |-> len2, buffers |-> bufs1],
                   err |-> st.err,
                   pkt |-> IF st.err = "nil"
                           THEN [id |-> msg.id, buf |-> buffer, ecn |-> st.ecn,
                                 addr |-> st.addr, ifIndex |-> st.ifIndex]
                           ELSE NoPacket,
                   slot |-> pos1, chain |-> msg.chain, msgId |-> msg.id,
                   onceV4 |-> st.onceV4, onceV6 |-> st.onceV6,
                   logV4 |-> st.logV4, logV6 |-> st.logV6,
                   pastEnd |-> st.pastEnd, info |-> info] :
                  st \in {ReadControl(SubSeq(msg.OOB, 1, msg.NN), tail,
                                      NewPacketState(o4, o6))}} : TRUE

Conn == [readPos |-> readPos, messages |-> messages, messagesLen |-> messagesLen,
         buffers |-> buffers]

\* ReadBatch is called only when the batch is used up
BatchAnswers ==
    IF AllMessagesRead(messagesLen, readPos)
    THEN ReadBatchResults(nextId)
    ELSE {[n |-> 0, err |-> "nil", chains |-> <<>>]}

\* The bytes behind the ancillary data are read only when the data left to
\* parse is shorter than the length field.
Tails(r0) == IF r0.pastEnd THEN Garbage ELSE {<<0, 0, 0, 0>>}

ReadPacket ==
    /\ ctorErr = "nil"
    /\ HeldCount < MaxHeld
    /\ \E rb \in BatchAnswers :
       \E r0 \in {ReadPacketCall(Conn, pool, rb, <<0, 0, 0, 0>>, nextId, onceV4, onceV6)} :
       \E tail \in Tails(r0) :
       \E r \in {IF r0.pastEnd
                 THEN ReadPacketCall(Conn, pool, rb, tail, nextId, onceV4, onceV6)
                 ELSE r0} :
          LET refilled == {i + 1 : i \in r.info.refilled}
              \* buffers the refill displaced that no caller ever got
              dropped == {buffers[i] : i \in {j \in refilled :
                                               buffers[j] # 0 /\ ~handed[j]}}
              taken == {r.conn.buffers[i] : i \in refilled}
              handed1 == [i \in 1..batchSize |-> IF i \in refilled THEN FALSE ELSE handed[i]]
              got == r.err = "nil" /\ r.slot >= 0
              delivered == r.info.recv /\ ~BatchFailed(rb.n, rb.err)
          IN /\ readPos' = r.conn.readPos
             /\ messages' = r.conn.messages
             /\ messagesLen' = r.conn.messagesLen
             /\ buffers' = r.conn.buffers
             /\ pool' = (pool \ taken) \cup dropped
             /\ handed' = IF got THEN [handed1 EXCEPT ![r.slot + 1] = TRUE] ELSE handed1
             /\ held' = IF got /\ r.pkt.buf # 0
                        THEN [held EXCEPT ![r.pkt.buf] = @ + 1] ELSE held
             /\ nextId' = IF delivered THEN nextId + rb.n ELSE nextId
             /\ onceV4' = r.onceV4
             /\ onceV6' = r.onceV6
             /\ logLines' = [v4 |-> logLines.v4 + r.logV4, v6 |-> logLines.v6 + r.logV6]
             /\ batch' = IF delivered
                         THEN [n |-> rb.n, first |-> nextId, calls |-> 1, failed |-> FALSE]
                         ELSE [batch EXCEPT !.calls = Min(@ + 1, batchSize + 1),
                                            !.failed = r.info.recv]
             /\ last' = [op |-> "ReadPacket", err |-> r.err, pkt |-> r.pkt,
                         slot |-> r.slot, chain |-> r.chain, msgId |-> r.msgId,
                         pastEnd |-> r.pastEnd, afterFailed |-> batch.failed,
                         entryPos |-> r.info.entryPos, entryLen |-> r.info.entryLen,
                         recv |-> r.info.recv, recvN |-> r.info.recvN,
                         recvErr |-> r.info.recvErr,
                         recvIntoOwned |-> \A b \in r.info.recvBufs :
                                              /\ b # 0 /\ held[b] = 0
                                              /\ b \notin (pool \ taken)]
    /\ UNCHANGED <<cap, ctorErr, env, cin, cout, probes>>
    /\ UNCHANGED extVars

\* the caller is done with a packet: packetBuffer.Release puts it back
Release ==
    /\ ctorErr = "nil"
    /\ \E b \in BufIds :
          /\ held[b] > 0
          /\ held' = [held EXCEPT ![b] = @ - 1]
          /\ pool' = pool \cup {b}
    /\ last' = [op |-> "Release"]
    /\ UNCHANGED <<cap, ctorErr, env, cin, cout, readPos, messages, messagesLen,
                   buffers, handed, nextId, onceV4, onceV6, logLines, batch, probes>>
    /\ UNCHANGED extVars

pipeState == <<cap, ctorErr, env, last, batch, readPos, messages, messagesLen, buffers,
               pool, held, handed, nextId, onceV4, onceV6, logLines, probes>>

NoCall == [op |-> "none"]

PipelineInit(e) ==
    /\ env = e
    /\ ctorErr = newConn(e).err
    /\ cap = newConn(e).cap
    /\ readPos = batchSize
    /\ messages = [i \in 1..batchSize |-> EmptyMessage]
    /\ messagesLen = batchSize
    /\ buffers = [i \in 1..batchSize |-> 0]
    /\ handed = [i \in 1..batchSize |-> FALSE]
    /\ pool = BufIds
    /\ held = [b \in BufIds |-> 0]
    /\ nextId = 1
    /\ onceV4 = FALSE
    /\ onceV6 = FALSE
    /\ logLines = [v4 |-> 0, v6 |-> 0]
    /\ batch = [n |-> 0, first |-> 0, calls |-> 0, failed |-> FALSE]
    /\ last = NoCall
    /\ probes = ProbesRun(e)

NoCodec == /\ cin = <<>>
           /\ cout = <<>>

\* no further connection, no call in flight, no listener
NoExt == /\ insts = <<>>
         /\ seen = [v4 |-> 0, v6 |-> 0]
         /\ readers = <<>>
         /\ server = <<>>
         /\ closedConn = <<>>

Init == \E e \in WorkingEnvs : PipelineInit(e) /\ NoCodec /\ NoExt

\* The receive pipeline alone, on a socket where every probe succeeded
\* (ReadPacket reads nothing of the capabilities).
RecvInit == \E e \in {x \in WorkingEnvs : ~x.optErr} : PipelineInit(e) /\ NoCodec /\ NoExt

RecvNext == ReadPacket \/ Release

RecvSpec == RecvInit /\ [][RecvNext]_vars

(***************************************************************************)
(* The send path. addr is the kind of net.Addr passed: a *net.UDPAddr      *)
(* with an IPv4 address, one with an IPv6 address, or another type.        *)
(* send is the answer of WriteMsgUDP: [n, err].                            *)
(***************************************************************************)
AddrKinds == {"udp4", "udp6", "other"}
IsUDPAddr(addr) == addr \in {"udp4", "udp6"}
\* remoteUDPAddr.IP.To4() != nil
IsIPv4(addr) == addr = "udp4"

\* Mutant: a send path that drops the segmentation hint when GSO is missing.
WritePacketDropsHint(c, b, addr, packetInfoOOB, gsoSize, ecn, send) ==
    LET oob1 == IF gsoSize > 0 /\ capabilities(c).GSO
                THEN appendUDPSegmentSizeMsg(packetInfoOOB, gsoSize)
                ELSE packetInfoOOB
        oob2 == IF ecn # "ECNUnsupported" /\ capabilities(c).ECN /\ IsUDPAddr(addr)
                THEN IF IsIPv4(addr) THEN appendIPv4ECNMsg(oob1, ecn)
                     ELSE appendIPv6ECNMsg(oob1, ecn)
                ELSE oob1
    IN IF ~IsUDPAddr(addr)
       THEN [result |-> "panic", sends |-> 0, oob |-> <<>>, n |-> 0, err |-> "nil",
             cap |-> c]
       ELSE [result |-> "returned", sends |-> 1, oob |-> oob2,
             n |-> send.n, err |-> send.err, cap |-> c]

\* Mutant: a failed send switches GSO off for the connection.
WritePacketDisablesGSO(c, b, addr, packetInfoOOB, gsoSize, ecn, send) ==
    LET panic == [result |-> "panic", sends |-> 0, oob |-> <<>>, n |-> 0, err |-> "nil",
                  cap |-> c]
        oob1 == IF gsoSize > 0 THEN appendUDPSegmentSizeMsg(packetInfoOOB, gsoSize)
                ELSE packetInfoOOB
        oob2 == IF ecn # "ECNUnsupported" /\ IsUDPAddr(addr)
                THEN IF IsIPv4(addr) THEN appendIPv4ECNMsg(oob1, ecn)
                     ELSE appendIPv6ECNMsg(oob1, ecn)
                ELSE oob1
    IN IF gsoSize > 0 /\ ~capabilities(c).GSO THEN panic
       ELSE IF ecn # "ECNUnsupported" /\ ~capabilities(c).ECN THEN panic
       ELSE IF ~IsUDPAddr(addr) THEN panic
       ELSE [result |-> "returned", sends |-> 1, oob |-> oob2,
             n |-> send.n, err |-> send.err,
             cap |-> IF send.err # "nil" THEN [c EXCEPT !.GSO = FALSE] ELSE c]

\* the result also gives c.cap after the call (the code assigns nothing to it)
WritePacketCall(c, b, addr, packetInfoOOB, gsoSize, ecn, send) ==
    LET panic == [result |-> "panic", sends |-> 0, oob |-> <<>>, n |-> 0, err |-> "nil",
                  cap |-> c]
    IN IF gsoSize > 0 /\ ~capabilities(c).GSO
       THEN panic
       ELSE LET oob1 == IF gsoSize > 0
                        THEN appendUDPSegmentSizeMsg(packetInfoOOB, gsoSize)
                        ELSE packetInfoOOB
            IN IF ecn # "ECNUnsupported" /\ ~capabilities(c).ECN
               THEN panic
               ELSE LET oob2 == IF ecn # "ECNUnsupported" /\ IsUDPAddr(addr)
                                THEN IF IsIPv4(addr)
                                     THEN appendIPv4ECNMsg(oob1, ecn)
                                     ELSE appendIPv6ECNMsg(oob1, ecn)
                                ELSE oob1
                    IN \* addr.(*net.UDPAddr) panics on any other type
                       IF ~IsUDPAddr(addr)
                       THEN panic
                       ELSE [result |-> "returned", sends |-> 1, oob |-> oob2,
                             n |-> send.n, err |-> send.err, cap |-> c]

\* inputs of WritePacket in the model
PayloadLens == {1200}
BaseOOBs == {<<>>, Rec(IPPROTO_IP, IP_PKTINFO, Addr4 \o PutU32(7))}
GsoSizes == {0, 1200}
SendAnswers(len) == {[n |-> len, err |-> "nil"], [n |-> 0, err |-> "EOS"]}

WritePacket ==
    /\ ctorErr = "nil"
    /\ \E len \in PayloadLens, addr \in AddrKinds, base \in BaseOOBs,
          gsoSize \in GsoSizes, ecn \in ECNValues :
       \E send \in SendAnswers(len) :
       \E r \in {WritePacketCall(cap, len, addr, base, gsoSize, ecn, send)} :
          /\ cap' = r.cap
          /\ last' = [op |-> "WritePacket", b |-> len, addr |-> addr, base |-> base,
                      gsoSize |-> gsoSize, ecn |-> ecn,
                      send |-> IF r.sends = 1 THEN send ELSE [n |-> 0, err |-> "nil"],
                      result |-> r.result, sends |-> r.sends, oob |-> r.oob,
                      n |-> r.n, err |-> r.err]
    /\ UNCHANGED <<ctorErr, env, cin, cout, batch, probes>>
    /\ UNCHANGED pipeVars
    /\ UNCHANGED extVars

SendNext == WritePacket

SendSpec == Init /\ [][SendNext]_vars

Next == ReadPacket \/ Release \/ WritePacket

Spec == Init /\ [][Next]_vars

(***************************************************************************)
(* Construction on any socket, then sends on the connection if there is    *)
(* one. Before newConn has run there is no oobConn: ctorErr is "pending".  *)
(***************************************************************************)
ConstructInit ==
    /\ env \in Envs
    /\ ctorErr = "pending"
    /\ cap = [DF |-> FALSE, GSO |-> FALSE, ECN |-> FALSE]
    /\ probes = [sockopt |-> 0, gso |-> 0]
    /\ readPos = 0
    /\ messages = <<>>
    /\ messagesLen = 0
    /\ buffers = [i \in 1..batchSize |-> 0]
    /\ handed = [i \in 1..batchSize |-> FALSE]
    /\ pool = BufIds
    /\ held = [b \in BufIds |-> 0]
    /\ nextId = 1
    /\ onceV4 = FALSE
    /\ onceV6 = FALSE
    /\ logLines = [v4 |-> 0, v6 |-> 0]
    /\ batch = [n |-> 0, first |-> 0, calls |-> 0, failed |-> FALSE]
    /\ last = NoCall
    /\ NoCodec
    /\ NoExt

NewConn ==
    /\ ctorErr = "pending"
    /\ \E r \in {newConn(env)} :
          /\ ctorErr' = r.err
          /\ cap' = r.cap
          /\ readPos' = IF r.err = "nil" THEN batchSize ELSE readPos
          /\ messages' = IF r.err = "nil" THEN [i \in 1..batchSize |-> EmptyMessage]
                         ELSE messages
          /\ messagesLen' = IF r.err = "nil" THEN batchSize ELSE messagesLen
    /\ probes' = [sockopt |-> probes.sockopt + ProbesRun(env).sockopt,
                  gso |-> probes.gso + ProbesRun(env).gso]
    /\ last' = [op |-> "newConn"]
    /\ UNCHANGED <<env, buffers, handed, pool, held, nextId, onceV4, onceV6, logLines,
                   batch, cin, cout>>
    /\ UNCHANGED extVars

ConstructNext == NewConn \/ WritePacket

\* the sockets of the lifetime specification: construction succeeds; DF
\* is passed in and the GSO probe succeeds, or neither
LifeEnvs ==
    {e \in Envs : /\ ~e.syscallConnErr /\ ~e.controlErr /\ e.unspecified
                  /\ ~e.errECNIPv4 /\ ~e.errECNIPv6 /\ ~e.errPIIPv4 /\ ~e.errPIIPv6
                  /\ ~e.sock6Err /\ ~e.sock4Err /\ (e.supportsDF <=> ~e.optErr)}

ConstructSpec == ConstructInit /\ [][ConstructNext]_vars

(***************************************************************************)
(* A connection's lifetime: construction, then reads and sends in any      *)
(* order. The OS has one datagram left to deliver, further ReadBatch calls *)
(* fail; the callers keep the packets they got.                            *)
(***************************************************************************)
LifeInit ==
    /\ env \in LifeEnvs
    /\ ctorErr = "pending"
    /\ cap = [DF |-> FALSE, GSO |-> FALSE, ECN |-> FALSE]
    /\ probes = [sockopt |-> 0, gso |-> 0]
    /\ readPos = 0
    /\ messages = <<>>
    /\ messagesLen = 0
    /\ buffers = [i \in 1..batchSize |-> 0]
    /\ handed = [i \in 1..batchSize |-> FALSE]
    /\ pool = BufIds
    /\ held = [b \in BufIds |-> 0]
    /\ nextId = MaxMsgs
    /\ onceV4 = FALSE
    /\ onceV6 = FALSE
    /\ logLines = [v4 |-> 0, v6 |-> 0]
    /\ batch = [n |-> 0, first |-> 0, calls |-> 0, failed |-> FALSE]
    /\ last = NoCall
    /\ NoCodec
    /\ NoExt

LifeNext == NewConn \/ ReadPacket \/ WritePacket

LifeSpec == LifeInit /\ [][LifeNext]_vars

(***************************************************************************)
(* The codec on its own: ParseOneSocketControlMessage applied to one       *)
(* buffer. An input is the buffer b, the memory behind it (tail) and the   *)
(* length its header was written with (decl).                              *)
(***************************************************************************)
MaxBufLen == 20

DeclLens == {0, 4, 11, 12, 13, 14, 16, 17, 20, 24, 200, 2147483647}

CodecInputs ==
    {[kind |-> "buffer", decl |-> d, tail |-> t,
      b |-> SubSeq(PutU32(d) \o PutU32(IPPROTO_UDP) \o PutU32(UDP_SEND_MSG_SIZE)
                   \o [i \in 1..MaxBufLen |-> i], 1, l)] :
        d \in DeclLens, l \in 1..MaxBufLen, t \in Garbage}

CodecInit ==
    /\ \E e \in {x \in WorkingEnvs : ~x.optErr} : PipelineInit(e)
    /\ cin \in CodecInputs
    /\ cout = <<>>
    /\ NoExt

ParseOne ==
    /\ cin # <<>> /\ cin.kind = "buffer" /\ cout = <<>>
    /\ cout' = ParseOneSocketControlMessage(cin.b, cin.tail)
    /\ UNCHANGED <<cin, pipeState>>
    /\ UNCHANGED extVars

CodecNext == ParseOne

CodecSpec == CodecInit /\ [][CodecNext]_vars

(***************************************************************************)
(* The builder of the send path against the parser:                        *)
(* ParseOneSocketControlMessage(appendUDPSegmentSizeMsg(nil, size)) for    *)
(* every uint16 size.                                                      *)
(***************************************************************************)
Uint16 == 0..65535

SizeInputs == {[kind |-> "size", size |-> v] : v \in Uint16}

RoundTripInit ==
    /\ \E e \in {x \in WorkingEnvs : ~x.optErr} : PipelineInit(e)
    /\ cin \in SizeInputs
    /\ cout = <<>>
    /\ NoExt

BuildAndParse ==
    /\ cin # <<>> /\ cin.kind = "size" /\ cout = <<>>
    /\ cout' = ParseOneSocketControlMessage(appendUDPSegmentSizeMsg(<<>>, cin.size),
                                            <<0, 0, 0, 0>>)
    /\ UNCHANGED <<cin, pipeState>>
    /\ UNCHANGED extVars

RoundTripNext == BuildAndParse

RoundTripSpec == RoundTripInit /\ [][RoundTripNext]_vars

(***************************************************************************)
(* Buffers the send path builds, record after record, against the parser  *)
(* applied to the successive remainders until nothing is left, as the loop *)
(* of ReadPacket applies it.                                               *)
(***************************************************************************)
MaxBuilt == 3

\* the calls of the builders: which one, with which value
BuilderCalls ==
    {[fn |-> "segsize", size |-> v, ecn |-> "ECNUnsupported"] : v \in {1, 1200, 65535}}
    \cup {[fn |-> f, size |-> 0, ecn |-> v] :
             f \in {"ecn4", "ecn6"}, v \in ECNValues \ {"ECNUnsupported"}}

BuiltInputs ==
    {[kind |-> "built", calls |-> c] :
        c \in UNION {[1..n -> BuilderCalls] : n \in 0..MaxBuilt}}

\* oob after the first n calls
RECURSIVE Build(_, _)
Build(calls, n) ==
    IF n = 0 THEN <<>>
    ELSE LET b == Build(calls, n - 1)
             c == calls[n]
         IN CASE c.fn = "segsize" -> appendUDPSegmentSizeMsg(b, c.size)
              [] c.fn = "ecn4" -> appendIPv4ECNMsg(b, c.ecn)
              [] c.fn = "ecn6" -> appendIPv6ECNMsg(b, c.ecn)

\* for len(data) > 0 { hdr, body, remainder, err := ParseOne(data); ...;
\* data = remainder }
RECURSIVE ParseRecords(_)
ParseRecords(b) ==
    IF Len(b) = 0 THEN [err |-> "nil", calls |-> 0, hdrs |-> <<>>]
    ELSE LET r == ParseOneSocketControlMessage(b, <<0, 0, 0, 0>>)
         IN IF r.err # "nil"
            THEN [err |-> r.err, calls |-> 1, hdrs |-> <<>>]
            ELSE LET rest == ParseRecords(r.remainder)
                 IN [err |-> rest.err, calls |-> 1 + rest.calls,
                     hdrs |-> <<[Level |-> r.hdr.Level, Type |-> r.hdr.Type,
                                 data |-> r.data]>> \o rest.hdrs]

BuiltInit ==
    /\ \E e \in {x \in WorkingEnvs : ~x.optErr} : PipelineInit(e)
    /\ cin \in BuiltInputs
    /\ cout = <<>>
    /\ NoExt

BuildAndParseAll ==
    /\ cin # <<>> /\ cin.kind = "built" /\ cout = <<>>
    /\ cout' = ParseRecords(Build(cin.calls, Len(cin.calls)))
    /\ UNCHANGED <<cin, pipeState>>
    /\ UNCHANGED extVars

BuiltNext == BuildAndParseAll

BuiltSpec == BuiltInit /\ [][BuiltNext]_vars

(***************************************************************************)
(* The loop of ReadPacket on its own, applied to the ancillary data of one *)
(* message. An input is a sequence of records, named as below and laid out *)
(* as the OS lays them out; with trim, the padding of the last is cut.     *)
(***************************************************************************)
MaxChainLen == 3

RecNames == {"ecn4", "ecn6", "pi4", "pi6", "pi4short", "unk", "unkIP", "unkV6", "ecn4empty"}
UnknownRecs == {"unk", "unkIP", "unkV6"}

RecBytes(name) ==
    CASE name = "ecn4" -> Rec(IPPROTO_IP, IP_TOS, <<186, 0, 0, 0>>)
      [] name = "ecn6" -> Rec(IPPROTO_IPV6, IPV6_RECVTCLASS, <<3, 0, 0, 0>>)
      [] name = "pi4" -> Rec(IPPROTO_IP, IP_PKTINFO, Addr4 \o PutU32(7))
      [] name = "pi6" -> Rec(IPPROTO_IPV6, IPV6_PKTINFO, Addr16 \o PutU32(9))
      [] name = "pi4short" -> Rec(IPPROTO_IP, IP_PKTINFO, <<192, 0, 2, 1, 7, 0, 0>>)
      [] name = "unk" -> Rec(99, 99, <<1, 2, 3, 4>>)
      [] name = "unkIP" -> Rec(IPPROTO_IP, 77, <<5>>)
      [] name = "unkV6" -> Rec(IPPROTO_IPV6, 77, <<>>)
      [] name = "ecn4empty" -> Rec(IPPROTO_IP, IP_TOS, <<>>)

RECURSIVE Encode(_)
Encode(recs) == IF Len(recs) = 0 THEN <<>> ELSE RecBytes(Head(recs)) \o Encode(Tail(recs))

\* the chain's bytes; with trim, without the padding behind the last record
ChainBytes(recs, trim) ==
    IF trim /\ Len(recs) > 0
    THEN LET all == Encode(recs)
             lastLen == U32(RecBytes(recs[Len(recs)]), 1)
             padded == Len(RecBytes(recs[Len(recs)]))
         IN SubSeq(all, 1, Len(all) - (padded - lastLen))
    ELSE Encode(recs)

ChainInputs ==
    {[kind |-> "chain", recs |-> r, trim |-> t] :
        r \in UNION {[1..n -> RecNames] : n \in 0..MaxChainLen}, t \in BOOLEAN}

ChainInit ==
    /\ \E e \in {x \in WorkingEnvs : ~x.optErr} : PipelineInit(e)
    /\ cin \in ChainInputs
    /\ cout = <<>>
    /\ NoExt

ParseChain ==
    /\ cin # <<>> /\ cin.kind = "chain" /\ cout = <<>>
    /\ cout' = ReadControl(ChainBytes(cin.recs, cin.trim), <<0, 0, 0, 0>>,
                           NewPacketState(FALSE, FALSE))
    /\ UNCHANGED <<cin, pipeState>>
    /\ UNCHANGED extVars

ChainNext == ParseChain

ChainSpec == ChainInit /\ [][ChainNext]_vars

\* the records of a well-formed chain, in order: <<[Level, Type, data]>>
RECURSIVE ChainRecords(_)
ChainRecords(b) ==
    IF Len(b) = 0 THEN <<>>
    ELSE LET r == ParseOneSocketControlMessage(b, <<0, 0, 0, 0>>)
         IN IF r.err # "nil" THEN <<>>
            ELSE <<[Level |-> r.hdr.Level, Type |-> r.hdr.Type, data |-> r.data]>>
                 \o ChainRecords(r.remainder)

(***************************************************************************)
(* Several oobConns in one process. invalidCmsgOnceV4 and                  *)
(* invalidCmsgOnceV6 are package variables: every connection uses the same *)
(* two gates. Once.Do is atomic (a second caller waits until the first     *)
(* returns), and the gates are all that the connections share besides the  *)
(* buffer pool, so ReadPacket calls running at the same time on different  *)
(* connections are their calls in the order they pass Once.Do. The caller  *)
(* releases each packet's buffer as soon as the call has returned.         *)
(***************************************************************************)
MaxInstances == 2
\* Datagrams received by all connections together in one run.
MaxReceipts == 3

\* what the OS delivers here: chains of valid lengths, with packet-info
\* records of the expected and of unexpected sizes
OnceChains == {2, 3, 7, 8}

NewConnState == [readPos |-> batchSize,
                 messages |-> [i \in 1..batchSize |-> EmptyMessage],
                 messagesLen |-> batchSize,
                 buffers |-> [i \in 1..batchSize |-> 0]]

\* packet-info records of chain ch whose payload has not the expected size
Mismatches(ch) ==
    LET recs == ChainRecords(Chains[ch].bytes)
    IN [v4 |-> Cardinality({i \in 1..Len(recs) :
                  /\ recs[i].Level = IPPROTO_IP /\ recs[i].Type = IP_PKTINFO
                  /\ Len(recs[i].data) # 8}),
        v6 |-> Cardinality({i \in 1..Len(recs) :
                  /\ recs[i].Level = IPPROTO_IPV6 /\ recs[i].Type = IPV6_PKTINFO
                  /\ Len(recs[i].data) # 20})]

OnceBatchAnswers(c) ==
    IF AllMessagesRead(c.messagesLen, c.readPos)
    THEN UNION {{[n |-> n, err |-> "nil", chains |-> cs] : cs \in [1..n -> OnceChains]} :
                 n \in {k \in 1..batchSize : nextId + k - 1 <= MaxReceipts}}
    ELSE {[n |-> 0, err |-> "nil", chains |-> <<>>]}

OnceInit ==
    /\ \E e \in {x \in WorkingEnvs : ~x.optErr} : PipelineInit(e)
    /\ NoCodec
    /\ insts \in UNION {[1..k -> {NewConnState}] : k \in 1..MaxInstances}
    /\ seen = [v4 |-> 0, v6 |-> 0]
    /\ readers = <<>>
    /\ server = <<>>
    /\ closedConn = <<>>

\* ReadPacket on connection i
ReadPacketOn ==
    /\ \E i \in 1..Len(insts) :
       \E rb \in OnceBatchAnswers(insts[i]) :
       \E r \in {ReadPacketCall(insts[i], pool, rb, <<0, 0, 0, 0>>, nextId,
                                 onceV4, onceV6)} :
          LET taken == {r.conn.buffers[s + 1] : s \in r.info.refilled}
              back == IF r.err = "nil" /\ r.slot >= 0 THEN {r.pkt.buf} ELSE {}
              m == IF r.chain # 0 THEN Mismatches(r.chain) ELSE [v4 |-> 0, v6 |-> 0]
          IN /\ insts' = [insts EXCEPT ![i] = r.conn]
             /\ pool' = (pool \ taken) \cup back
             /\ nextId' = IF r.info.recv THEN nextId + rb.n ELSE nextId
             /\ onceV4' = r.onceV4
             /\ onceV6' = r.onceV6
             /\ logLines' = [v4 |-> logLines.v4 + r.logV4, v6 |-> logLines.v6 + r.logV6]
             /\ seen' = [v4 |-> seen.v4 + m.v4, v6 |-> seen.v6 + m.v6]
             /\ last' = [op |-> "ReadPacket", inst |-> i, err |-> r.err, pkt |-> r.pkt,
                         chain |-> r.chain, recv |-> r.info.recv]
    /\ UNCHANGED <<cap, ctorErr, env, cin, cout, probes, batch, readPos, messages,
                   messagesLen, buffers, held, handed, readers, server, closedConn>>

OnceNext == ReadPacketOn

OnceSpec == OnceInit /\ [][OnceNext]_vars

(***************************************************************************)
(* ReadPacket statement by statement, for calls that may run at the same   *)
(* time on one oobConn. The method takes no lock; each step below is one   *)
(* group of statements of the source, and steps of different calls         *)
(* interleave freely. A call in flight is a record of readers:             *)
(*   pc          where the call stands                                     *)
(*   pos, buf    its locals: the slot it took and that slot's buffer       *)
(*   err         what it returned ("panic": index out of range)            *)
(*   concurrent  another call was in flight when it was entered            *)
(* Buffers a refill displaces are garbage; callers keep their packets.     *)
(***************************************************************************)
\* calls made in one run
MaxCalls == 3

RaceChains == {1, 2}

RaceBatchAnswers ==
    {rb \in ReadBatchResults(nextId) : \A i \in 1..rb.n : rb.chains[i] \in RaceChains}

InFlight == Cardinality({i \in 1..Len(readers) : readers[i].pc # "done"})

RaceInit ==
    /\ \E e \in {x \in WorkingEnvs : ~x.optErr} : PipelineInit(e)
    /\ NoCodec
    /\ insts = <<>>
    /\ seen = [v4 |-> 0, v6 |-> 0]
    /\ readers = <<>>
    /\ server = <<>>
    /\ closedConn = <<>>

\* frame of a step that touches only the call's own record
RaceFrame == UNCHANGED <<cap, ctorErr, env, cin, cout, probes, batch, insts, seen,
                         server, closedConn>>

\* a caller invokes c.ReadPacket(); two calls at most are in flight at once
Enter ==
    /\ Len(readers) < MaxCalls /\ InFlight < 2
    /\ readers' = Append(readers, [pc |-> "check", pos |-> -1, buf |-> 0, chain |-> 0,
                                   msgId |-> 0, err |-> "nil",
                                   concurrent |-> InFlight > 0])
    /\ last' = [op |-> "Enter"]
    /\ UNCHANGED pipeVars
    /\ RaceFrame

\* if len(c.messages) == int(c.readPos)
Check ==
    /\ \E i \in 1..Len(readers) :
          /\ readers[i].pc = "check"
          /\ readers' = [readers EXCEPT ![i].pc =
                            IF AllMessagesRead(messagesLen, readPos) THEN "refill"
                            ELSE "take"]
          /\ last' = [op |-> "Check", call |-> i]
    /\ UNCHANGED pipeVars
    /\ RaceFrame

\* c.messages = c.messages[:batchSize]; the refill loop; c.readPos = 0
Refill ==
    /\ \E i \in 1..Len(readers) :
          /\ readers[i].pc = "refill"
          /\ Cardinality(pool) >= Cardinality(RefillSlots(readPos))
          /\ \E bufs \in {RefillLoop(0, RefillSlots(readPos), pool, buffers)} :
                /\ buffers' = bufs
                /\ messages' = [s \in 1..batchSize |->
                                  IF (s - 1) \in RefillSlots(readPos)
                                  THEN [messages[s] EXCEPT !.buf = bufs[s]]
                                  ELSE messages[s]]
                /\ pool' = pool \ {bufs[s + 1] : s \in RefillSlots(readPos)}
                /\ handed' = [s \in 1..batchSize |->
                                IF (s - 1) \in RefillSlots(readPos) THEN FALSE
                                ELSE handed[s]]
          /\ messagesLen' = batchSize
          /\ readPos' = ResetCursor(readPos)
          /\ readers' = [readers EXCEPT ![i].pc = "recv"]
          /\ last' = [op |-> "Refill", call |-> i]
    /\ UNCHANGED <<held, nextId, onceV4, onceV6, logLines>>
    /\ RaceFrame

\* n, err := c.batchConn.ReadBatch(c.messages, 0); return on failure;
\* c.messages = c.messages[:n]
Recv ==
    /\ \E i \in 1..Len(readers) :
          /\ readers[i].pc = "recv"
          /\ \E rb \in RaceBatchAnswers :
                IF BatchFailed(rb.n, rb.err)
                THEN /\ readers' = [readers EXCEPT ![i].pc = "done", ![i].err = rb.err]
                     /\ UNCHANGED <<messages, messagesLen, nextId>>
                ELSE /\ messages' = Received(messages, rb, nextId)
                     /\ messagesLen' = rb.n
                     /\ nextId' = nextId + rb.n
                     /\ readers' = [readers EXCEPT ![i].pc = "take"]
          /\ last' = [op |-> "Recv", call |-> i]
    /\ UNCHANGED <<readPos, buffers, pool, held, handed, onceV4, onceV6, logLines>>
    /\ RaceFrame

\* msg := c.messages[c.readPos]; buffer := c.buffers[c.readPos]
Take ==
    /\ \E i \in 1..Len(readers) :
          /\ readers[i].pc = "take"
          /\ readers' = IF readPos >= messagesLen
                        THEN [readers EXCEPT ![i].pc = "done", ![i].err = "panic"]
                        ELSE [readers EXCEPT ![i].pc = "incr", ![i].pos = readPos,
                                             ![i].buf = buffers[readPos + 1],
                                             ![i].chain = messages[readPos + 1].chain,
                                             ![i].msgId = messages[readPos + 1].id]
          /\ last' = [op |-> "Take", call |-> i]
    /\ UNCHANGED pipeVars
    /\ RaceFrame

\* c.readPos++ : without a lock the increment may build on the value the
\* call read when it took its slot, or on the value in memory now
Incr ==
    /\ \E i \in 1..Len(readers) :
          /\ readers[i].pc = "incr"
          /\ readPos' \in {Advance(readPos), Advance(readers[i].pos)}
          /\ readers' = [readers EXCEPT ![i].pc = "parse"]
          /\ last' = [op |-> "Incr", call |-> i]
    /\ UNCHANGED <<messages, messagesLen, buffers, pool, held, handed, nextId,
                   onceV4, onceV6, logLines>>
    /\ RaceFrame

\* the loop over msg.OOB[:msg.NN]; return p, nil
Parse ==
    /\ \E i \in 1..Len(readers) :
          /\ readers[i].pc = "parse"
          /\ \E st \in {ReadControl(IF readers[i].chain = 0 THEN <<>>
                                      ELSE Chains[readers[i].chain].bytes,
                                      <<0, 0, 0, 0>>, NewPacketState(onceV4, onceV6))} :
                /\ readers' = [readers EXCEPT ![i].pc = "done", ![i].err = st.err]
                /\ held' = IF st.err = "nil" /\ readers[i].buf # 0
                           THEN [held EXCEPT ![readers[i].buf] = @ + 1] ELSE held
                /\ handed' = IF st.err = "nil"
                             THEN [handed EXCEPT ![readers[i].pos + 1] = TRUE] ELSE handed
                /\ onceV4' = st.onceV4
                /\ onceV6' = st.onceV6
                /\ logLines' = [v4 |-> logLines.v4 + st.logV4, v6 |-> logLines.v6 + st.logV6]
          /\ last' = [op |-> "Parse", call |-> i]
    /\ UNCHANGED <<readPos, messages, messagesLen, buffers, pool, nextId>>
    /\ RaceFrame

RaceNext == Enter \/ Check \/ Refill \/ Recv \/ Take \/ Incr \/ Parse

RaceSpec == RaceInit /\ [][RaceNext]_vars

(***************************************************************************)
(* The listener as TestDrainServerAcceptQueue drives it: clients dial,     *)
(* handshaken connections wait in the accept queue, the server is closed,  *)
(* Accept is called. The server's code is not part of the sources; the     *)
(* listener below is the one the test requires. Connections are numbered   *)
(* in the order dialled.                                                   *)
(***************************************************************************)
\* protocol.MaxAcceptQueueSize, scaled down
MaxAcceptQueueSize == 3
\* connections the clients dial in one run
MaxDials == 4

NoServer == [queue |-> <<>>, closed |-> FALSE, dialled |-> 0, refused |-> {},
             accepted |-> <<>>, ended |-> {}]

\* a client's Dial completes: the connection is queued for Accept, or
\* refused when the queue is full or the server closed
serverQueue(sv) ==
    LET c == sv.dialled + 1
    IN IF sv.closed \/ Len(sv.queue) >= MaxAcceptQueueSize
       THEN [sv EXCEPT !.dialled = c, !.refused = @ \cup {c}, !.ended = @ \cup {c}]
       ELSE [sv EXCEPT !.dialled = c, !.queue = Append(@, c)]

\* Mutant: closing the server closes the connections waiting in the queue.
serverCloseDropsQueue(sv) ==
    [sv EXCEPT !.closed = TRUE, !.queue = <<>>,
               !.ended = @ \cup {sv.queue[i] : i \in 1..Len(sv.queue)}]

\* server.Close(): no new connections; the queued ones stay
serverClose(sv) == [sv EXCEPT !.closed = TRUE]

\* server.Accept(ctx): [sv, conn, err, blocks]
serverAccept(sv) ==
    IF Len(sv.queue) > 0
    THEN [sv |-> [sv EXCEPT !.queue = Tail(@), !.accepted = Append(@, Head(sv.queue))],
          conn |-> Head(sv.queue), err |-> "nil", blocks |-> FALSE]
    ELSE IF sv.closed
    THEN [sv |-> sv, conn |-> 0, err |-> "ErrServerClosed", blocks |-> FALSE]
    ELSE [sv |-> sv, conn |-> 0, err |-> "nil", blocks |-> TRUE]

AcceptInit ==
    /\ \E e \in {x \in WorkingEnvs : ~x.optErr} : PipelineInit(e)
    /\ NoCodec
    /\ insts = <<>>
    /\ seen = [v4 |-> 0, v6 |-> 0]
    /\ readers = <<>>
    /\ server = NoServer
    /\ closedConn = <<>>

Dial ==
    /\ server # <<>> /\ server.dialled < MaxDials
    /\ server' = serverQueue(server)
    /\ last' = [op |-> "Dial", conn |-> server.dialled + 1]
    /\ UNCHANGED <<cap, ctorErr, env, cin, cout, probes, batch>>
    /\ UNCHANGED <<pipeVars, insts, seen, readers, closedConn>>

ServerClose ==
    /\ server # <<>> /\ ~server.closed
    /\ server' = serverClose(server)
    /\ last' = [op |-> "Close", queued |-> server.queue]
    /\ UNCHANGED <<cap, ctorErr, env, cin, cout, probes, batch>>
    /\ UNCHANGED <<pipeVars, insts, seen, readers, closedConn>>

Accept ==
    /\ server # <<>>
    /\ \E r \in {serverAccept(server)} :
          /\ ~r.blocks
          /\ server' = r.sv
          /\ last' = [op |-> "Accept", conn |-> r.conn, err |-> r.err,
                      queued |-> server.queue, closed |-> server.closed]
    /\ UNCHANGED <<cap, ctorErr, env, cin, cout, probes, batch>>
    /\ UNCHANGED <<pipeVars, insts, seen, readers, closedConn>>

\* conns[i].CloseWithError(0, "") / c.CloseWithError(0, "") on an accepted
\* connection
ConnClose ==
    /\ server # <<>>
    /\ \E i \in 1..Len(server.accepted) :
          /\ server.accepted[i] \notin server.ended
          /\ server' = [server EXCEPT !.ended = @ \cup {server.accepted[i]}]
          /\ last' = [op |-> "ConnClose", conn |-> server.accepted[i]]
    /\ UNCHANGED <<cap, ctorErr, env, cin, cout, probes, batch>>
    /\ UNCHANGED <<pipeVars, insts, seen, readers, closedConn>>

AcceptNext == Dial \/ ServerClose \/ Accept \/ ConnClose

AcceptSpec == AcceptInit /\ [][AcceptNext]_vars

(***************************************************************************)
(* A connection after CloseWithError, as TestConnectionCloseRetransmission *)
(* observes it: the CONNECTION_CLOSE packet goes out, and packets that     *)
(* still arrive are counted and answered with it now and then. The         *)
(* connection's code is not part of the sources; this is the behaviour the *)
(* test and its comment require.                                           *)
(***************************************************************************)
\* packets the peer sends after the close (the test sends 100)
MaxPackets == 100

\* bits.OnesCount32
RECURSIVE OnesCount(_)
OnesCount(n) == IF n = 0 THEN 0 ELSE (n % 2) + OnesCount(n \div 2)

\* the CONNECTION_CLOSE packet for an error code, as sent: a stand-in for
\* the encrypted packet, distinct for distinct codes
connClosePacket(code) == <<28>> \o PutU16(code)

\* Mutant: every packet that arrives is answered.
retransmitAlways(n) == TRUE

\* is the n-th packet after the close answered?
retransmit(n) == OnesCount(n) = 1

CloseInit ==
    /\ \E e \in {x \in WorkingEnvs : ~x.optErr} : PipelineInit(e)
    /\ NoCodec
    /\ insts = <<>>
    /\ seen = [v4 |-> 0, v6 |-> 0]
    /\ readers = <<>>
    /\ server = <<>>
    /\ closedConn = [closed |-> FALSE, packet |-> <<>>, counter |-> 0, sent |-> <<>>]

CloseWithError ==
    /\ closedConn # <<>> /\ ~closedConn.closed
    /\ \E code \in {0, 1337} :
          closedConn' = [closed |-> TRUE, packet |-> connClosePacket(code),
                         counter |-> 0, sent |-> <<connClosePacket(code)>>]
    /\ last' = [op |-> "CloseWithError", answered |-> FALSE]
    /\ UNCHANGED <<cap, ctorErr, env, cin, cout, probes, batch>>
    /\ UNCHANGED <<pipeVars, insts, seen, readers, server>>

\* a packet arrives for the closed connection
HandlePacket ==
    /\ closedConn # <<>> /\ closedConn.closed /\ closedConn.counter < MaxPackets
    /\ \E n \in {closedConn.counter + 1} :
          /\ closedConn' = [closedConn EXCEPT
                               !.counter = n,
                               !.sent = IF retransmit(n) THEN Append(@, closedConn.packet)
                                        ELSE @]
          /\ last' = [op |-> "HandlePacket", answered |-> retransmit(n)]
    /\ UNCHANGED <<cap, ctorErr, env, cin, cout, probes, batch>>
    /\ UNCHANGED <<pipeVars, insts, seen, readers, server>>

CloseNext == CloseWithError \/ HandlePacket

CloseSpec == CloseInit /\ [][CloseNext]_vars

(***************************************************************************)
(* Properties.                                                             *)
(***************************************************************************)
CarriesSegmentSize(oob, size) ==
    \E i \in 1..Len(ChainRecords(oob)) :
        LET rec == ChainRecords(oob)[i]
        IN /\ rec.Level = IPPROTO_UDP /\ rec.Type = UDP_SEND_MSG_SIZE
           /\ Len(rec.data) >= 2 /\ U16(rec.data, 1) = size

CarriesECN(oob, ecn) ==
    \E i \in 1..Len(ChainRecords(oob)) :
        LET rec == ChainRecords(oob)[i]
        IN /\ \/ rec.Level = IPPROTO_IP /\ rec.Type = IP_TOS
              \/ rec.Level = IPPROTO_IPV6 /\ rec.Type = IPV6_RECVTCLASS
           /\ Len(rec.data) >= 1 /\ rec.data[1] = ToHeaderBits(ecn)

\* C1: a WritePacket call that asks for segmentation on a connection without
\* GSO, or for an ECN mark on a connection without ECN, panics before any
\* send; and whenever a datagram is sent, every hint the call asked for is
\* negotiated and is in the ancillary data sent.
C1_CapabilityGating ==
    last.op = "WritePacket" =>
        /\ (last.gsoSize > 0 /\ ~cap.GSO) => (last.result = "panic" /\ last.sends = 0)
        /\ (last.ecn # "ECNUnsupported" /\ ~cap.ECN)
              => (last.result = "panic" /\ last.sends = 0)
        /\ last.sends = 1 =>
              /\ last.gsoSize > 0 => (cap.GSO /\ CarriesSegmentSize(last.oob, last.gsoSize))
              /\ last.ecn # "ECNUnsupported" => (cap.ECN /\ CarriesECN(last.oob, last.ecn))

\* a call asked for segmentation without GSO and panicked, nothing sent
C1_Witness ==
    /\ last.op = "WritePacket" /\ last.gsoSize > 0 /\ ~cap.GSO
    /\ last.result = "panic" /\ last.sends = 0

\* C2 (as claimed): the ReadPacket call that follows a call whose ReadBatch
\* returned zero messages or an error issues a new ReadBatch.
C2_RefillAfterFailedReceive ==
    (last.op = "ReadPacket" /\ last.afterFailed) => last.recv

\* C3 (as claimed): a ReadPacket call whose ReadBatch returned zero messages
\* or an error returns an error and no packet, and a call that returns a
\* nil error returns a packet that was received, with its pool buffer.
C3_FailedReceiveReturnsError ==
    last.op = "ReadPacket" =>
        /\ (last.recv /\ BatchFailed(last.recvN, last.recvErr))
              => (last.err # "nil" /\ last.pkt = NoPacket)
        /\ last.err = "nil" => (last.pkt.buf # 0 /\ last.pkt.id # 0)

\* C4: the cursor stays within the batch, 0 <= readPos <= len(messages) <=
\* batchSize, and a ReadPacket call issues a ReadBatch exactly when the
\* cursor equalled the batch length at entry.
C4_BatchCursor ==
    /\ 0 <= readPos /\ readPos <= messagesLen /\ messagesLen <= batchSize
    /\ last.op = "ReadPacket" => (last.recv <=> last.entryPos = last.entryLen)

\* a read aborted by a malformed chain, after a failed receive, with the
\* batch used up again
C4_Witness ==
    /\ last.op = "ReadPacket" /\ last.err = "EINVAL" /\ last.afterFailed
    /\ readPos = messagesLen

Owners(b) ==
    (IF b \in pool THEN 1 ELSE 0) + held[b]
    + Cardinality({i \in 1..batchSize : buffers[i] = b /\ ~handed[i]})

C7_MalformedChainAborts ==
    (last.op = "ReadPacket" /\ last.chain # 0 /\ Chains[last.chain].malformed) =>
        (last.err = "EINVAL" /\ readPos = last.slot + 1)

\* C9 (as claimed): a packet-info record of the expected length gives the
\* packet the record's address and interface index.
C9_PacketInfoFields ==
    (last.op = "ReadPacket" /\ last.err = "nil" /\ last.chain # 0
        /\ Chains[last.chain].info # NoInfo) =>
        /\ last.pkt.addr = Chains[last.chain].info.addr
        /\ last.pkt.ifIndex = Chains[last.chain].info.ifIndex

\* C8 (as claimed): on a non-empty buffer that is shorter than a header, or
\* whose declared length is below the header size or above the buffer
\* length, the parse returns EINVAL and reads nothing behind the buffer.
C8_MalformedLength ==
    (cin # <<>> /\ cin.kind = "buffer" /\ cout # <<>>
        /\ (Len(cin.b) < cmsgSize \/ cin.decl < cmsgSize \/ cin.decl > Len(cin.b))) =>
        (cout.err = "EINVAL" /\ cout.maxRead <= Len(cin.b))

RECURSIVE WithoutUnknown(_)
WithoutUnknown(recs) ==
    IF Len(recs) = 0 THEN <<>>
    ELSE IF Head(recs) \in UnknownRecs THEN WithoutUnknown(Tail(recs))
    ELSE <<Head(recs)>> \o WithoutUnknown(Tail(recs))

\* C10: records of an unrecognised (level, type), wherever they stand in a
\* length-valid chain, change nothing: the loop ends as it ends on the chain
\* without them, with the same ecn and packet info, and they cause no error;
\* the chain [ECN ECT(0), (99, 99), packet info] gives ECT(0) and the
\* packet-info address.
C10_UnknownRecordsSkipped ==
    (cin # <<>> /\ cin.kind = "chain" /\ cout # <<>>) =>
        LET plain == ReadControl(ChainBytes(WithoutUnknown(cin.recs), FALSE),
                                 <<0, 0, 0, 0>>, NewPacketState(FALSE, FALSE))
        IN /\ cout.err = plain.err
           /\ cout.ecn = plain.ecn
           /\ cout.addr = plain.addr
           /\ cout.ifIndex = plain.ifIndex
           /\ (\A i \in 1..Len(cin.recs) : cin.recs[i] # "ecn4empty") => cout.err = "nil"
           /\ cin.recs = <<"ecn4", "unk", "pi4">> =>
                 (cout.err = "nil" /\ cout.ecn = "ECT0" /\ cout.addr = Addr4)

\* the chain of the scenario has been parsed
C10_Witness ==
    /\ cin # <<>> /\ cin.kind = "chain" /\ cin.recs = <<"ecn4", "unk", "pi4">>
    /\ cout # <<>> /\ cout.err = "nil" /\ cout.ecn = "ECT0" /\ cout.addr = Addr4

\* C11: a packet-info record of unexpected length does not fail ReadPacket
\* and sets no packet info; however many such records the connections of
\* the process receive, each family's diagnostic is written once if a
\* record of that family came and never otherwise.
C11_LoggedOncePerFamily ==
    /\ logLines.v4 = (IF seen.v4 > 0 THEN 1 ELSE 0)
    /\ logLines.v6 = (IF seen.v6 > 0 THEN 1 ELSE 0)
    /\ (last.op = "ReadPacket" /\ last.chain # 0) =>
          /\ last.err = "nil"
          /\ last.pkt.id # 0
          /\ (Mismatches(last.chain).v4 + Mismatches(last.chain).v6 > 0) =>
                (last.pkt.addr = <<>> /\ last.pkt.ifIndex = 0)

\* two connections have each received an IPv4 record of unexpected length,
\* one line was written for IPv4 and none for IPv6
C11_Witness ==
    /\ Len(insts) >= 2 /\ seen.v4 >= 2 /\ seen.v6 = 0
    /\ \A i \in 1..2 : \E s \in 1..batchSize : insts[i].messages[s].chain = 7
    /\ logLines = [v4 |-> 1, v6 |-> 0]
    /\ last.op = "ReadPacket" /\ last.err = "nil" /\ last.pkt.addr = <<>>

\* C12: for every uint16 size, parsing the record appendUDPSegmentSizeMsg
\* builds on an empty buffer succeeds, gives level IPPROTO_UDP and type
\* UDP_SEND_MSG_SIZE, a two-byte payload that decodes to the size, and an
\* empty remainder.
C12_SegmentSizeRoundTrip ==
    (cin # <<>> /\ cin.kind = "size" /\ cout # <<>>) =>
        /\ cout.err = "nil"
        /\ cout.hdr.Level = IPPROTO_UDP /\ cout.hdr.Type = UDP_SEND_MSG_SIZE
        /\ Len(cout.data) = 2 /\ U16(cout.data, 1) = cin.size
        /\ cout.remainder = <<>>

\* the record for size 1200 has been built and parsed
C12_Witness ==
    /\ cin # <<>> /\ cin.kind = "size" /\ cin.size = 1200
    /\ cout # <<>> /\ cout.err = "nil" /\ cout.data = <<176, 4>>

\* what the record built by call c has to parse to
BuiltRecord(c) ==
    CASE c.fn = "segsize" -> [Level |-> IPPROTO_UDP, Type |-> UDP_SEND_MSG_SIZE,
                              data |-> <<c.size % 256, c.size \div 256>>]
      [] c.fn = "ecn4" -> [Level |-> IPPROTO_IP, Type |-> IP_TOS,
                           data |-> <<ToHeaderBits(c.ecn), 0, 0, 0>>]
      [] c.fn = "ecn6" -> [Level |-> IPPROTO_IPV6, Type |-> IPV6_RECVTCLASS,
                           data |-> <<ToHeaderBits(c.ecn), 0, 0, 0>>]

\* C13: on a buffer built by N calls of the record builders, in any
\* combination and order, parsing the successive remainders takes N calls,
\* none fails, the N headers and payloads are those of the N records in
\* the order built, and nothing is left after the N-th.
C13_ChainConsumption ==
    (cin # <<>> /\ cin.kind = "built" /\ cout # <<>>) =>
        /\ cout.err = "nil"
        /\ cout.calls = Len(cin.calls)
        /\ cout.hdrs = [i \in 1..Len(cin.calls) |-> BuiltRecord(cin.calls[i])]

\* a segment-size record between two ECN records has been parsed back
C13_Witness ==
    /\ cin # <<>> /\ cin.kind = "built" /\ Len(cin.calls) = 3
    /\ cin.calls[1].fn = "ecn4" /\ cin.calls[2].fn = "segsize" /\ cin.calls[3].fn = "ecn6"
    /\ cout # <<>> /\ cout.err = "nil" /\ Len(cout.hdrs) = 3
    /\ cout.hdrs[2].Type = UDP_SEND_MSG_SIZE

\* the GSO probe found UDP_SEND_MSG_SIZE settable on a dummy socket
GSOProbeSucceeded == ~(env.sock6Err /\ env.sock4Err) /\ ~env.optErr

\* C14: newConn fails exactly when the raw socket cannot be had
\* (SyscallConn or Control fails), or activating ECN fails for IPv4 and
\* IPv6, or the local address is unspecified and activating packet info
\* fails for both; otherwise the capabilities are DF as passed in, GSO iff
\* the probe succeeded, ECN true, and where the probe failed WritePacket
\* with gsoSize 1200 panics without sending.
C14_ConstructionOutcome ==
    ctorErr # "pending" =>
        /\ ctorErr # "nil" <=>
              \/ env.syscallConnErr \/ env.controlErr
              \/ env.errECNIPv4 /\ env.errECNIPv6
              \/ env.unspecified /\ env.errPIIPv4 /\ env.errPIIPv6
        /\ ctorErr = "nil" =>
              /\ capabilities(cap) = [DF |-> env.supportsDF, GSO |-> GSOProbeSucceeded,
                                      ECN |-> TRUE]
              /\ (~GSOProbeSucceeded /\ last.op = "WritePacket" /\ last.gsoSize = 1200)
                    => (last.result = "panic" /\ last.sends = 0)

\* ECN failed for IPv4 only, packet info failed for both families on a
\* socket bound to a specific address, the GSO probe failed: the connection
\* exists without GSO, and a send with gsoSize 1200 has panicked
C14_Witness ==
    /\ ctorErr = "nil" /\ env.errECNIPv4 /\ ~env.errECNIPv6
    /\ ~env.unspecified /\ env.errPIIPv4 /\ env.errPIIPv6
    /\ env.optErr /\ ~capabilities(cap).GSO
    /\ last.op = "WritePacket" /\ last.gsoSize = 1200 /\ last.result = "panic"

\* C15: whatever ReadPacket and WritePacket calls have been made, failed
\* ones included, capabilities() returns what newConn set, and the probes
\* have run only the once, inside newConn.
C15_CapabilitySnapshot ==
    ctorErr = "nil" =>
        /\ capabilities(cap) = newConn(env).cap
        /\ probes = ProbesRun(env)

\* a failed receive and a failed send lie behind, GSO is still reported
C15_Witness ==
    /\ ctorErr = "nil" /\ batch.failed /\ capabilities(cap).GSO
    /\ last.op = "WritePacket" /\ last.sends = 1 /\ last.err # "nil"

PowersOfTwoUpTo(n) == {k \in 1..n : \E e \in 0..7 : k = 2^e}

SegmentSizeRecord(size) ==
    <<14, 0, 0, 0, IPPROTO_UDP, 0, 0, 0, UDP_SEND_MSG_SIZE, 0, 0, 0,
      size % 256, size \div 256, 0, 0>>

ECNRecord(addr, ecn) ==
    IF IsIPv4(addr)
    THEN <<16, 0, 0, 0, IPPROTO_IP, 0, 0, 0, IP_TOS, 0, 0, 0, ToHeaderBits(ecn), 0, 0, 0>>
    ELSE <<16, 0, 0, 0, IPPROTO_IPV6, 0, 0, 0, IPV6_RECVTCLASS, 0, 0, 0,
           ToHeaderBits(ecn), 0, 0, 0>>

\* C18 (as claimed): a WritePacket call that asks for no capability the
\* connection lacks makes exactly one send, with the base data, then the
\* segment-size record iff gsoSize > 0, then the ECN record of the
\* destination's family iff ecn is not ECNUnsupported, and returns the
\* send's byte count and error.
C18_AncillaryData ==
    (/\ last.op = "WritePacket"
     /\ last.gsoSize > 0 => capabilities(cap).GSO
     /\ last.ecn # "ECNUnsupported" => capabilities(cap).ECN) =>
        /\ last.result = "returned" /\ last.sends = 1
        /\ last.oob = last.base
                        \o (IF last.gsoSize > 0 THEN SegmentSizeRecord(last.gsoSize)
                            ELSE <<>>)
                        \o (IF last.ecn # "ECNUnsupported"
                            THEN ECNRecord(last.addr, last.ecn) ELSE <<>>)
        /\ last.n = last.send.n /\ last.err = last.send.err

\* C18 (as amended): the same, for the calls whose destination is a
\* *net.UDPAddr.
C18_AncillaryDataUDP ==
    (last.op = "WritePacket" /\ IsUDPAddr(last.addr)) => C18_AncillaryData

\* a send to an IPv6 destination with base data, segment size and ECT(0)
\* went out and failed; the call returned the send's error
C18_Witness ==
    /\ last.op = "WritePacket" /\ last.addr = "udp6" /\ last.gsoSize = 1200
    /\ last.ecn = "ECT0" /\ last.base # <<>> /\ last.sends = 1
    /\ Len(last.oob) = Len(last.base) + 32
    /\ last.send.err = "EOS" /\ last.err = "EOS" /\ last.n = 0

\* two calls have been in flight at once
Overlapped == \E i \in 1..Len(readers) : readers[i].concurrent

\* a buffer is in two callers' hands, or the cursor is past the batch, or a
\* call indexed past the batch
CursorRaceDamage ==
    \/ \E b \in BufIds : held[b] >= 2
    \/ readPos > messagesLen
    \/ \E i \in 1..Len(readers) : readers[i].err = "panic"

\* C19: as long as one ReadPacket call at a time runs on the connection, no
\* buffer goes to two callers and the cursor never passes the batch length.
\* (That two calls at once can do this damage is the witness.)
C19_OneReaderAtATime ==
    ~Overlapped => ~CursorRaceDamage

\* two calls ran at once and both returned slot 0 with the same buffer
C19_Witness ==
    /\ Overlapped
    /\ \E i, j \in 1..Len(readers) :
          /\ i < j /\ readers[i].pc = "done" /\ readers[j].pc = "done"
          /\ readers[i].err = "nil" /\ readers[j].err = "nil"
          /\ readers[i].pos = readers[j].pos /\ readers[i].buf = readers[j].buf
          /\ readers[i].buf # 0 /\ held[readers[i].buf] = 2

\* C20 (as claimed): whatever chain a received message carries, parsing it
\* ends with a packet or with an error, never with an abort.
C20_NeverAborts ==
    (cin # <<>> /\ cin.kind = "chain" /\ cout # <<>>) => cout.err # "panic"

====
